---- MODULE Spec2Model ----
(***************************************************************************)
(* The streaming pipeline of the echo server (src/main_old.py): the        *)
(* /ws handler with its process-wide audio buffer, the voice-activity      *)
(* gate, the Whisper dispatcher, the profanity matcher, the detections     *)
(* table and the /sensitivity endpoint.                                    *)
(*                                                                         *)
(* Audio is kept run-length encoded.  A run [s, i, n, a] stands for n      *)
(* consecutive samples of connection s, the first of them being the i-th   *)
(* sample that connection sent, all with the int16 value a (the float the  *)
(* handler stores is a / 32768).  Every inbound chunk is one run, runs are *)
(* never merged, so two equal sample sequences have equal encodings.       *)
(*                                                                         *)
(* The handler is a coroutine on a single event loop: it can be suspended  *)
(* only at its awaits on the transport (accept, receive_bytes, send_json). *)
(* call_whisper_stt is awaited but never suspends (it has no await of its  *)
(* own), so everything between a receive and the following send is one     *)
(* atomic step.                                                            *)
(***************************************************************************)
EXTENDS Integers, Sequences, FiniteSets, TLC

\* ---------------------------------------------------------------- bounds
\* Inbound events handled in a run: frames of any kind, disconnects and
\* POST /sensitivity calls.
MaxMsgs == 2

\* ------------------------------------------------------ program constants
buffer_size == 24000
max_buffer_length == 48000

Sessions == {"A", "B"}
\* Python's None where a sequence or an optional value is expected; an optional
\* value is <<>> or <<v>>.
None == <<>>
NoModel == "None"

\* Inputs: chunk lengths in samples, and the int16 value of a chunk's samples.
\* 16/32768 is about 0.0005 and -1000/32768 about -0.03.
Chunks ==
    { [n |-> 0, a |-> 0], [n |-> 12000, a |-> -1000], [n |-> 24000, a |-> 0],
      [n |-> 24000, a |-> 16], [n |-> 36000, a |-> -1000], [n |-> 52000, a |-> -1000] }
\* What each client presents as its identity when it connects.
Identity == [s \in Sessions |-> IF s = "A" THEN "valid" ELSE "absent"]

Max(a, b) == IF a >= b THEN a ELSE b
Min(a, b) == IF a <= b THEN a ELSE b
Abs(x) == IF x < 0 THEN -x ELSE x

\* ------------------------------------------------- run-length sequences
RECURSIVE TotalLen(_)
\* len(list)
TotalLen(b) == IF b = <<>> THEN 0 ELSE Head(b).n + TotalLen(Tail(b))

RECURSIVE TakeSamples(_, _)
\* the first k samples, 0 <= k
TakeSamples(b, k) ==
    IF k <= 0 \/ b = <<>> THEN <<>>
    ELSE IF Head(b).n <= k
         THEN <<Head(b)>> \o TakeSamples(Tail(b), k - Head(b).n)
         ELSE <<[Head(b) EXCEPT !.n = k]>>

RECURSIVE DropSamples(_, _)
\* all but the first k samples, 0 <= k
DropSamples(b, k) ==
    IF k <= 0 \/ b = <<>> THEN b
    ELSE IF Head(b).n <= k
         THEN DropSamples(Tail(b), k - Head(b).n)
         ELSE <<[Head(b) EXCEPT !.i = @ + k, !.n = @ - k]>> \o Tail(b)

\* Python's clamping of a slice index against a list of the given length.
SliceIndex(k, len) == IF k < 0 THEN Max(len + k, 0) ELSE Min(k, len)
\* list[k:]
SliceFrom(b, k) == DropSamples(b, SliceIndex(k, TotalLen(b)))
\* list[:k]
SliceTo(b, k) == TakeSamples(b, SliceIndex(k, TotalLen(b)))

\* list.extend(chunk), the chunk being one run (an empty chunk adds nothing)
Extend(b, chunk) == IF chunk.n = 0 THEN b ELSE Append(b, chunk)

\* ------------------------------------------------------------------ text
\* A text is a sequence of Unicode code points.
IsSpace(c) == c \in {9, 10, 11, 12, 13, 32}

RECURSIVE LStrip(_)
LStrip(t) == IF t # <<>> /\ IsSpace(Head(t)) THEN LStrip(Tail(t)) ELSE t
RECURSIVE RStrip(_)
RStrip(t) ==
    IF t # <<>> /\ IsSpace(t[Len(t)]) THEN RStrip(SubSeq(t, 1, Len(t) - 1)) ELSE t
\* str.strip()
Strip(t) == RStrip(LStrip(t))

\* str.lower(): A-Z fold to a-z, Hangul syllables and jamo have no case
Lower(t) == [k \in 1..Len(t) |-> IF t[k] \in 65..90 THEN t[k] + 32 ELSE t[k]]

\* pattern in text
Contains(t, p) ==
    \E k \in 0..(Len(t) - Len(p)) : SubSeq(t, k + 1, k + Len(p)) = p

\* The tiered phrase lists, each phrase by its code points.
PROFANITY_PATTERNS ==
    [level \in 1..3 |->
        CASE level = 1 ->
               << <<50472, 48156>>, <<49884, 48156>>, <<48337, 49888>>, <<51334>>,
                  <<49989>>, <<44060, 49352, 45180>>, <<50472, 54036>>,
                  <<49884, 54036>> >>
          [] level = 2 ->
               << <<49352, 45180>>, <<51648, 46980>>, <<50687>>, <<44060, 45448>>,
                  <<44060, 45380>>, <<50500, 44032, 47532>>, <<12631>>,
                  <<12613, 12610>>, <<51676, 51613>>, <<47693, 52397>>,
                  <<47693, 52397, 51060>>, <<48148, 48372>> >>
          [] level = 3 ->
               << <<48120, 52828>>, <<48737, 52824>>, <<44732, 51256>>,
                  <<45797, 52432>>, <<12612>>, <<12614, 12610>>, <<44060>>,
                  <<51453, 50612>>, <<46321, 49888>>, <<46608, 46972, 51060>> >>]

\* What Whisper may hand back before stripping: a blank, a clean phrase padded
\* with blanks, a phrase holding a tier-2 word.
RawTexts ==
    { <<32>>,
      <<32, 45216, 50472, 32>>,
      <<51676, 51613, 45208>> }

RECURSIVE get_profanity_patterns_from(_, _)
get_profanity_patterns_from(level, sensitivity) ==
    IF level > sensitivity THEN <<>>
    ELSE (IF level \in DOMAIN PROFANITY_PATTERNS THEN PROFANITY_PATTERNS[level] ELSE <<>>)
         \o get_profanity_patterns_from(level + 1, sensitivity)

get_profanity_patterns(sensitivity) == get_profanity_patterns_from(1, sensitivity)

RECURSIVE MatchedPatterns(_, _)
\* the loop "for pattern in patterns: if pattern.lower() in text_lower: append"
MatchedPatterns(patterns, text_lower) ==
    IF patterns = <<>> THEN <<>>
    ELSE (IF Contains(text_lower, Lower(Head(patterns))) THEN <<Head(patterns)>> ELSE <<>>)
         \o MatchedPatterns(Tail(patterns), text_lower)

detect_profanity_from_text(text, patterns) ==
    IF Strip(text) = <<>>
    THEN [detected |-> FALSE, pattern |-> None, confidence |-> 0, text |-> text]
    ELSE LET detected_patterns == MatchedPatterns(patterns, Lower(text))
         IN  [detected |-> Len(detected_patterns) > 0,
              pattern |-> IF detected_patterns # <<>> THEN Head(detected_patterns)
                          ELSE None,
              patterns |-> detected_patterns,
              \* confidence in tenths: 0.8 or 0
              confidence |-> IF detected_patterns # <<>> THEN 8 ELSE 0,
              text |-> text]

\* ----------------------------------------------------------- transcription
\* whisper.load_model either yields a model or raises; a failed load leaves None.
load_whisper_model(model, loadOk) ==
    IF model = NoModel THEN (IF loadOk THEN "base" ELSE NoModel) ELSE model

\* Variant: the except branch hands back the error text instead of "".
call_whisper_stt_ReturnsError(model, loadOk, out) ==
    LET m == load_whisper_model(model, loadOk)
    IN  IF m = NoModel THEN [text |-> <<>>, model |-> m, failed |-> TRUE]
        ELSE IF out.raises THEN [text |-> <<101, 114, 114>>, model |-> m, failed |-> TRUE]
        ELSE [text |-> Strip(out.text), model |-> m, failed |-> FALSE]

\* out is what model.transcribe does: it raises, or returns the raw text out.text.
\* The peak normalisation before it never applies: int16 / 32768 lies in [-1, 1).
call_whisper_stt(model, loadOk, out) ==
    LET m == load_whisper_model(model, loadOk)
    IN  IF m = NoModel THEN [text |-> <<>>, model |-> m, failed |-> TRUE]
        ELSE IF out.raises THEN [text |-> <<>>, model |-> m, failed |-> TRUE]
        ELSE [text |-> Strip(out.text), model |-> m, failed |-> FALSE]

\* --------------------------------------------------------------- the gate
RECURSIVE EnergySum(_)
\* sum of |int16 value| over the samples; np.mean(np.abs(w)) = EnergySum / (32768 * len)
EnergySum(w) == IF w = <<>> THEN 0 ELSE Head(w).n * Abs(Head(w).a) + EnergySum(Tail(w))

\* Variant: the threshold is lost, chunk_energy > 0.
VoiceActive_NoThreshold(w) == EnergySum(w) > 0

\* chunk_energy > 0.02, as 50 * sum > 32768 * len
VoiceActive(w) == 50 * EnergySum(w) > 32768 * TotalLen(w)

\* ------------------------------------------------------- the audio buffer
\* Variant: the cap keeps the head of the buffer, audio_buffer[:max_buffer_length].
AppendChunk_KeepsOldest(buf, chunk) ==
    LET extended == Extend(buf, chunk)
    IN  IF TotalLen(extended) > max_buffer_length
        THEN SliceTo(extended, max_buffer_length)
        ELSE extended

\* Variant: the buffer is extended and never cut.
AppendChunk_NoCap(buf, chunk) == Extend(buf, chunk)

\* audio_buffer.extend(audio_chunk), then the cap on the buffer length
AppendChunk(buf, chunk) ==
    LET extended == Extend(buf, chunk)
    IN  IF TotalLen(extended) > max_buffer_length
        THEN SliceFrom(extended, -max_buffer_length)
        ELSE extended

\* Variant: a strict comparison, len(audio_buffer) > buffer_size.
WindowReady_Strict(buf) == TotalLen(buf) > buffer_size

\* len(audio_buffer) >= buffer_size
WindowReady(buf) == TotalLen(buf) >= buffer_size
\* Variant: the window is cut from the tail, audio_buffer[-buffer_size:].
chunk_to_analyze_FromTail(buf) == SliceFrom(buf, -buffer_size)

\* np.array(audio_buffer[:buffer_size])
chunk_to_analyze(buf) == SliceTo(buf, buffer_size)
\* Variant: the whole window is dropped, audio_buffer[buffer_size:].
AfterExtract_NoOverlap(buf) == SliceFrom(buf, buffer_size)

\* audio_buffer[buffer_size//2:]
AfterExtract(buf) == SliceFrom(buf, buffer_size \div 2)

\* ------------------------------------------------------ outbound messages
\* The timestamp fields are left out; energy is EnergySum of the window.
\* "stt_empty" is the message of the branch taken when the recognized text is
\* empty, "no_activity" the message of the branch below the energy threshold.
RECURSIVE Join(_)
\* ",".join(patterns)
Join(ps) ==
    IF ps = <<>> THEN <<>>
    ELSE IF Len(ps) = 1 THEN Head(ps)
    ELSE Head(ps) \o <<44>> \o Join(Tail(ps))

DetectedResponse(text, result, energy) ==
    [detected |-> TRUE, text |-> text, pattern |-> result.pattern,
     patterns |-> result.patterns, confidence |-> result.confidence,
     energy |-> energy]
CleanResponse(text, energy) == [detected |-> FALSE, text |-> text, energy |-> energy]
EmptyResponse(energy) ==
    [detected |-> FALSE, text |-> <<>>, energy |-> energy, message |-> "stt_empty"]
NoActivityResponse(energy) ==
    [detected |-> FALSE, text |-> <<>>, energy |-> energy, message |-> "no_activity"]

DetectionRow(text, result, energy) ==
    [text |-> text, pattern |-> result.pattern, patterns |-> Join(result.patterns),
     confidence |-> result.confidence, audio_level |-> energy]

\* Variant: a row is inserted for a clean text as well.
AfterTranscription_PersistsClean(stt, result, chunk_energy, dbOk) ==
    IF stt.text # <<>>
    THEN IF result.detected
         THEN [called |-> TRUE, failed |-> stt.failed, model |-> stt.model,
               text |-> stt.text, scanned |-> TRUE,
               insert |-> IF dbOk THEN "ok" ELSE "raised",
               row |-> <<DetectionRow(stt.text, result, chunk_energy)>>,
               response |-> IF dbOk
                            THEN <<DetectedResponse(stt.text, result, chunk_energy)>>
                            ELSE None]
         ELSE [called |-> TRUE, failed |-> stt.failed, model |-> stt.model,
               text |-> stt.text, scanned |-> TRUE,
               insert |-> "ok",
               row |-> <<[text |-> stt.text, pattern |-> None, patterns |-> <<>>,
                          confidence |-> 0, audio_level |-> chunk_energy]>>,
               response |-> <<CleanResponse(stt.text, chunk_energy)>>]
    ELSE [called |-> TRUE, failed |-> stt.failed, model |-> stt.model,
          text |-> stt.text, scanned |-> FALSE,
          insert |-> "none", row |-> None,
          response |-> <<EmptyResponse(chunk_energy)>>]

\* What one window leads to, the window being active: the text is scanned, a
\* detection is inserted and reported, a clean text is reported, an empty text
\* is reported.  insert tells whether the INSERT ran and whether it raised.
AfterTranscription(stt, result, chunk_energy, dbOk) ==
    IF stt.text # <<>>
    THEN IF result.detected
         THEN [called |-> TRUE, failed |-> stt.failed, model |-> stt.model,
               text |-> stt.text, scanned |-> TRUE,
               insert |-> IF dbOk THEN "ok" ELSE "raised",
               row |-> <<DetectionRow(stt.text, result, chunk_energy)>>,
               response |-> IF dbOk
                            THEN <<DetectedResponse(stt.text, result, chunk_energy)>>
                            ELSE None]
         ELSE [called |-> TRUE, failed |-> stt.failed, model |-> stt.model,
               text |-> stt.text, scanned |-> TRUE,
               insert |-> "none", row |-> None,
               response |-> <<CleanResponse(stt.text, chunk_energy)>>]
    ELSE [called |-> TRUE, failed |-> stt.failed, model |-> stt.model,
          text |-> stt.text, scanned |-> FALSE,
          insert |-> "none", row |-> None,
          response |-> <<EmptyResponse(chunk_energy)>>]

\* recognized_text = await call_whisper_stt(...), then the matcher on a
\* non-empty text
Transcribed(stt, patterns, chunk_energy, dbOk) ==
    AfterTranscription(stt,
                       IF stt.text # <<>>
                       THEN detect_profanity_from_text(stt.text, patterns)
                       ELSE [detected |-> FALSE],
                       chunk_energy, dbOk)

\* The statement "if chunk_energy > 0.02: ... else: ..." for one window.
AnalyzeWindow(win, patterns, model, loadOk, out, dbOk) ==
    IF VoiceActive(win)
    THEN Transcribed(call_whisper_stt(model, loadOk, out), patterns, EnergySum(win), dbOk)
    ELSE [called |-> FALSE, failed |-> FALSE, model |-> model,
          text |-> <<>>, scanned |-> FALSE,
          insert |-> "none", row |-> None,
          response |-> <<NoActivityResponse(EnergySum(win))>>]

\* The statement "if len(audio_buffer) >= buffer_size: ..." on the buffer mid
\* that the append left.
ExtractAndAnalyze(buf, chunk, mid, patterns, model, loadOk, out, dbOk) ==
    IF WindowReady(mid)
    THEN [pre |-> buf, chunk |-> chunk, mid |-> mid, ready |-> TRUE,
          win |-> chunk_to_analyze(mid), post |-> AfterExtract(mid),
          an |-> <<AnalyzeWindow(chunk_to_analyze(mid), patterns, model, loadOk, out,
                                 dbOk)>>]
    ELSE [pre |-> buf, chunk |-> chunk, mid |-> mid, ready |-> FALSE,
          win |-> <<>>, post |-> mid, an |-> <<>>]

\* One pass of the receive loop over a well-formed binary frame.
ProcessChunk(buf, chunk, patterns, model, loadOk, out, dbOk) ==
    ExtractAndAnalyze(buf, chunk, AppendChunk(buf, chunk), patterns, model, loadOk, out,
                      dbOk)

\* ---------------------------------------------- the pattern catalog service
\* services/profanity_service.py; its PROFANITY_PATTERNS holds the same three
\* lists as the one of main_old.py.
RECURSIVE get_patterns_from(_, _)
\* for level in range(level, sensitivity + 1):
\*     patterns.extend(PROFANITY_PATTERNS.get(level, []))
get_patterns_from(level, sensitivity) ==
    IF level > sensitivity THEN <<>>
    ELSE (IF level \in DOMAIN PROFANITY_PATTERNS THEN PROFANITY_PATTERNS[level] ELSE <<>>)
         \o get_patterns_from(level + 1, sensitivity)

\* Variant: the loop stops one tier early, range(1, sensitivity).
get_patterns_StopsEarly(sensitivity) == get_patterns_from(1, sensitivity - 1)

\* ProfanityService.get_patterns
get_patterns(sensitivity) == get_patterns_from(1, sensitivity)

\* ProfanityService.__init__
ProfanityService(level) == [sensitivity_level |-> level, patterns |-> get_patterns(level)]

\* Variant: only the upper end is checked, level <= 3.
LevelAccepted_UpperOnly(level) == level <= 3

\* level in [1, 2, 3]
LevelAccepted(level) == level \in {1, 2, 3}

\* Variant: the scan stops at the first phrase found.
detect_FirstMatchOnly(self, text) ==
    IF Strip(text) = <<>>
    THEN [detected |-> FALSE, pattern |-> None, confidence |-> 0, text |-> text]
    ELSE LET detected_patterns == SubSeq(MatchedPatterns(self.patterns, Lower(text)), 1, 1)
         IN  [detected |-> Len(detected_patterns) > 0,
              pattern |-> IF detected_patterns # <<>> THEN Head(detected_patterns)
                          ELSE None,
              patterns |-> detected_patterns,
              confidence |-> IF detected_patterns # <<>> THEN 8 ELSE 0,
              text |-> text]

\* Variant: the scan runs over the phrases of all three tiers, whatever the
\* level of the instance.
detect_IgnoresTier(self, text) ==
    IF Strip(text) = <<>>
    THEN [detected |-> FALSE, pattern |-> None, confidence |-> 0, text |-> text]
    ELSE LET detected_patterns == MatchedPatterns(get_patterns(3), Lower(text))
         IN  [detected |-> Len(detected_patterns) > 0,
              pattern |-> IF detected_patterns # <<>> THEN Head(detected_patterns)
                          ELSE None,
              patterns |-> detected_patterns,
              confidence |-> IF detected_patterns # <<>> THEN 8 ELSE 0,
              text |-> text]

\* ProfanityService.detect, self being the instance
detect(self, text) ==
    IF Strip(text) = <<>>
    THEN [detected |-> FALSE, pattern |-> None, confidence |-> 0, text |-> text]
    ELSE LET detected_patterns == MatchedPatterns(self.patterns, Lower(text))
         IN  [detected |-> Len(detected_patterns) > 0,
              pattern |-> IF detected_patterns # <<>> THEN Head(detected_patterns)
                          ELSE None,
              patterns |-> detected_patterns,
              confidence |-> IF detected_patterns # <<>> THEN 8 ELSE 0,
              text |-> text]

\* ------------------------------------------------------------------ state
VARIABLES
    sensitivity_level,  \* the module-level sensitivity_level
    audio_buffer,       \* the module-level audio_buffer
    whisper_model,      \* the module-level whisper_model
    detections,         \* the rows of table detections, in insertion order
    pc,                 \* where each connection's handler stands
    patterns,           \* each handler's local patterns
    response,           \* the message a handler is about to send (<<>> or <<m>>)
    outbox,             \* the messages each client has been sent, in order
    http,               \* the latest POST /sensitivity: its request and its answer
    ident,              \* the identity each client presented when connecting
    rx,                 \* samples received so far on each connection
    nmsgs,              \* inbound events handled so far
    nbin,               \* well-formed binary frames each handler has taken
    step,               \* the latest pass over a binary frame (<<>> or <<record>>)
    nwin,               \* windows extracted by each handler
    nstt,               \* call_whisper_stt calls by each handler
    wins,               \* the two windows extracted last, and what came between
    swins,              \* per handler: its two latest windows
    disturbed,          \* since the last extraction: samples cut by the cap, or a reset
    text_in,            \* the latest text frame each handler was handed (<<>> or <<t>>)
    service,            \* a ProfanityService instance: sensitivity_level, patterns
    svc_pc,             \* a ProfanityService.set_sensitivity call under way (<<>> or <<level>>)
    svc_ret,            \* the latest two calls on the catalog or the matcher, latest first
    groups,             \* the rows of table groups, in insertion order (id = position)
    group_members,      \* the rows of table group_members
    swears,             \* per user: the rows of table detections that carry its id
    api                 \* the latest request to the group API and its answer (<<>> or <<record>>)

\* The state of the pattern catalog and matcher of services/profanity_service.py.
svcvars == <<service, svc_pc, svc_ret>>
\* The tables and the API of main.py and models/group.py.
dbvars == <<groups, group_members, swears, api>>

vars == <<sensitivity_level, audio_buffer, whisper_model, detections, pc, patterns,
          response, outbox, http, ident, rx, nmsgs, nbin, step, nwin, nstt, wins,
          swins, disturbed, text_in, svcvars, dbvars>>

\* The registered users, by their internal id; 0 stands for a request whose
\* user-id header is missing or names no registered user.
Users == 1..6
Requesters == Users \cup {0}

\* What model.transcribe does with a window: it raises, or returns a raw text.
STTOutcomes ==
    {[raises |-> TRUE, text |-> <<>>]} \cup {[raises |-> FALSE, text |-> t] : t \in RawTexts}

\* pc: "idle" (no connection yet), "accepting" (in await websocket.accept()),
\* "recv" (in await websocket.receive_bytes()), "send" (in await
\* websocket.send_json()), "closed" (returned after WebSocketDisconnect),
\* or the name of the exception that ended the handler uncaught.
Streaming == {"recv", "send"}
Failed == {"ValueError", "KeyError", "sqlite3.Error"}

\* startup(): init_db() empties the table, load_whisper_model() may fail.
\* The catalog service is constructed with its default level.
Init ==
    /\ sensitivity_level = 2
    /\ audio_buffer = <<>>
    /\ whisper_model \in {NoModel, "base"}
    /\ detections = <<>>
    /\ pc = [s \in Sessions |-> "idle"]
    /\ patterns = [s \in Sessions |-> <<>>]
    /\ response = [s \in Sessions |-> <<>>]
    /\ outbox = [s \in Sessions |-> <<>>]
    /\ http = <<>>
    /\ ident = [s \in Sessions |-> "none"]
    /\ rx = [s \in Sessions |-> 0]
    /\ nmsgs = 0
    /\ nbin = [s \in Sessions |-> 0]
    /\ step = <<>>
    /\ nwin = [s \in Sessions |-> 0]
    /\ nstt = [s \in Sessions |-> 0]
    /\ wins = <<>>
    /\ swins = [s \in Sessions |-> <<>>]
    /\ disturbed = FALSE
    /\ text_in = [s \in Sessions |-> <<>>]
    /\ service = ProfanityService(2)
    /\ svc_pc = <<>>
    /\ svc_ret = <<>>
    /\ groups = <<>>
    /\ group_members = {}
    /\ swears = [u \in Users |-> 0]
    /\ api = <<>>

\* A client connects to /ws; the handler starts and awaits websocket.accept().
\* Whatever identity the client presents, the handler reads none of it.
websocket_connect(s) ==
    /\ pc[s] = "idle"
    /\ ident' = [ident EXCEPT ![s] = Identity[s]]
    /\ pc' = [pc EXCEPT ![s] = "accepting"]
    /\ UNCHANGED <<sensitivity_level, audio_buffer, whisper_model, detections, patterns,
                   response, outbox, http, rx, nmsgs, nbin, step, nwin, nstt, wins,
                   swins, disturbed,
                   text_in, svcvars, dbvars>>

\* accept() returns: audio_buffer = [], patterns = get_profanity_patterns(...)
websocket_start(s) ==
    /\ pc[s] = "accepting"
    /\ audio_buffer' = <<>>
    /\ patterns' = [patterns EXCEPT ![s] = get_profanity_patterns(sensitivity_level)]
    /\ pc' = [pc EXCEPT ![s] = "recv"]
    /\ disturbed' = TRUE
    /\ UNCHANGED <<sensitivity_level, whisper_model, detections, response, outbox, http,
                   ident, rx, nmsgs, nbin, step, nwin, nstt, wins, swins,
                   text_in, svcvars, dbvars>>

\* The last two elements of a log after adding one.
Latest2(log, w) == IF log = <<>> THEN <<w>> ELSE <<log[Len(log)], w>>

\* What the environment decides during one pass: whether a pending model load
\* succeeds, what transcribe does, whether the INSERT succeeds.  Only the
\* decisions the pass consumes are enumerated.
EnvChoices(buf, chunk, model) ==
    LET mid == AppendChunk(buf, chunk)
        quiet == {[loadOk |-> TRUE, out |-> [raises |-> FALSE, text |-> <<>>], dbOk |-> TRUE]}
    IN  IF ~WindowReady(mid) THEN quiet
        ELSE IF ~VoiceActive(chunk_to_analyze(mid)) THEN quiet
        ELSE [loadOk : IF model = NoModel THEN BOOLEAN ELSE {TRUE},
              out : STTOutcomes, dbOk : BOOLEAN]

\* receive_bytes() returns a frame of 2 * c.n bytes, every int16 in it being
\* c.a, and the handler makes its pass over it.
receive_chunk(s, c) ==
    /\ pc[s] = "recv"
    /\   LET chunk == [s |-> s, i |-> rx[s], n |-> c.n, a |-> c.a]
         IN  \E env \in EnvChoices(audio_buffer, chunk, whisper_model) :
               \E r \in {ProcessChunk(audio_buffer, chunk, patterns[s], whisper_model,
                                       env.loadOk, env.out, env.dbOk)} :
               LET capped == TotalLen(r.pre) + c.n > TotalLen(r.mid)
                   an == r.an[1]
               IN  /\ audio_buffer' = r.post
                   /\ rx' = [rx EXCEPT ![s] = @ + c.n]
                   /\ step' = <<[s |-> s] @@ r>>
                   /\ IF r.ready
                      THEN /\ whisper_model' = an.model
                           /\ detections' = IF an.insert = "ok"
                                            THEN detections \o an.row ELSE detections
                           /\ response' = [response EXCEPT ![s] = an.response]
                           /\ pc' = [pc EXCEPT ![s] = IF an.insert = "raised"
                                                       THEN "sqlite3.Error" ELSE "send"]
                           /\ nwin' = [nwin EXCEPT ![s] = @ + 1]
                           /\ nstt' = [nstt EXCEPT ![s] = IF an.called THEN @ + 1 ELSE @]
                           /\ wins' = <<[pair |-> Latest2(IF wins = <<>> THEN <<>>
                                                           ELSE wins[1].pair, r.win),
                                         clean |-> ~(disturbed \/ capped)]>>
                           /\ swins' = [swins EXCEPT ![s] = Latest2(@, r.win)]
                           /\ disturbed' = FALSE
                      ELSE /\ disturbed' = (disturbed \/ capped)
                           /\ UNCHANGED <<whisper_model, detections, response, pc, nwin,
                                          nstt, wins, swins>>
    /\ nmsgs' = nmsgs + 1
    /\ nbin' = [nbin EXCEPT ![s] = @ + 1]
    /\ UNCHANGED <<sensitivity_level, patterns, outbox, http, ident,
                   text_in, svcvars, dbvars>>

\* A well-formed binary frame arrives.
websocket_receive_bytes(s) == \E c \in Chunks : receive_chunk(s, c)

\* np.frombuffer raises ValueError on a frame with an odd number of bytes;
\* only WebSocketDisconnect is caught, so the handler ends with the exception.
websocket_receive_malformed(s) ==
    /\ pc[s] = "recv"
    /\ pc' = [pc EXCEPT ![s] = "ValueError"]
    /\ nmsgs' = nmsgs + 1
    /\ UNCHANGED <<sensitivity_level, audio_buffer, whisper_model, detections, patterns,
                   response, outbox, http, ident, rx, nbin, step, nwin, nstt, wins,
                   swins, disturbed,
                   text_in, svcvars, dbvars>>

\* The text frames a client may send: "ping" (the liveness probe) and "hi".
TextFrames == { <<112, 105, 110, 103>>, <<104, 105>> }

\* receive_bytes() on a text frame finds no bytes in it and raises, whatever
\* the text is.
websocket_receive_text(s) ==
    /\ pc[s] = "recv"
    /\ \E t \in TextFrames : text_in' = [text_in EXCEPT ![s] = <<t>>]
    /\ pc' = [pc EXCEPT ![s] = "KeyError"]
    /\ nmsgs' = nmsgs + 1
    /\ UNCHANGED <<sensitivity_level, audio_buffer, whisper_model, detections, patterns,
                   response, outbox, http, ident, rx, nbin, step, nwin, nstt, wins,
                   swins, disturbed,
                   svcvars, dbvars>>

\* receive_bytes() raises WebSocketDisconnect: the handler logs and returns.
websocket_disconnect(s) ==
    /\ pc[s] = "recv"
    /\ pc' = [pc EXCEPT ![s] = "closed"]
    /\ nmsgs' = nmsgs + 1
    /\ UNCHANGED <<sensitivity_level, audio_buffer, whisper_model, detections, patterns,
                   response, outbox, http, ident, rx, nbin, step, nwin, nstt,
                   wins, swins, disturbed,
                   text_in, svcvars, dbvars>>

\* Variant: the message goes in front of the ones sent before.
websocket_send_Prepends(s) ==
    /\ pc[s] = "send"
    /\ outbox' = [outbox EXCEPT ![s] = response[s] \o @]
    /\ response' = [response EXCEPT ![s] = <<>>]
    /\ pc' = [pc EXCEPT ![s] = "recv"]
    /\ UNCHANGED <<sensitivity_level, audio_buffer, whisper_model, detections, patterns,
                   http, ident, rx, nmsgs, nbin, step, nwin, nstt, wins, swins,
                   disturbed, text_in, svcvars, dbvars>>

\* send_json() returns: the client has the message.
websocket_send(s) ==
    /\ pc[s] = "send"
    /\ outbox' = [outbox EXCEPT ![s] = @ \o response[s]]
    /\ response' = [response EXCEPT ![s] = <<>>]
    /\ pc' = [pc EXCEPT ![s] = "recv"]
    /\ UNCHANGED <<sensitivity_level, audio_buffer, whisper_model, detections, patterns,
                   http, ident, rx, nmsgs, nbin, step, nwin, nstt, wins, swins,
                   disturbed,
                   text_in, svcvars, dbvars>>

\* Variant: a successful change also replaces the pattern set of every
\* connection.
set_sensitivity_UpdatesSessions(level) ==
    /\ nmsgs' = nmsgs + 1
    /\ IF level \notin {1, 2, 3}
       THEN /\ http' = <<[request |-> level,
                            answer |-> [error |-> "Sensitivity must be 1, 2, or 3"]]>>
            /\ UNCHANGED <<sensitivity_level, patterns>>
       ELSE /\ sensitivity_level' = level
            /\ patterns' = [s \in Sessions |-> get_profanity_patterns(level)]
            /\ http' = <<[request |-> level, answer |-> [sensitivity |-> level]]>>
    /\ UNCHANGED <<audio_buffer, whisper_model, detections, pc, response,
                   outbox, ident, rx, nbin, step, nwin, nstt, wins, swins, disturbed,
                   text_in, svcvars, dbvars>>

\* POST /sensitivity
set_sensitivity(level) ==
    /\ nmsgs' = nmsgs + 1
    /\ IF level \notin {1, 2, 3}
       THEN /\ http' = <<[request |-> level,
                            answer |-> [error |-> "Sensitivity must be 1, 2, or 3"]]>>
            /\ UNCHANGED sensitivity_level
       ELSE /\ sensitivity_level' = level
            /\ http' = <<[request |-> level, answer |-> [sensitivity |-> level]]>>
    /\ UNCHANGED <<audio_buffer, whisper_model, detections, pc, patterns, response,
                   outbox, ident, rx, nbin, step, nwin, nstt, wins, swins, disturbed,
                   text_in, svcvars, dbvars>>

SensitivityRequests == {0, 1, 3, 4}

Next ==
    \/ \E s \in Sessions : websocket_connect(s)
    \/ \E s \in Sessions : websocket_start(s)
    \/ nmsgs < MaxMsgs /\ \E s \in Sessions : websocket_receive_bytes(s)
    \/ nmsgs < MaxMsgs /\ \E s \in Sessions : websocket_receive_malformed(s)
    \/ nmsgs < MaxMsgs /\ \E s \in Sessions : websocket_receive_text(s)
    \/ nmsgs < MaxMsgs /\ \E s \in Sessions : websocket_disconnect(s)
    \/ \E s \in Sessions : websocket_send(s)
    \/ nmsgs < MaxMsgs /\ \E level \in SensitivityRequests : set_sensitivity(level)

Spec == Init /\ [][Next]_vars

\* ------------------------------------------- the transcription call, opened
\* The same handler with the call of model.transcribe made visible.  The call
\* is a plain synchronous call inside the coroutine (call_whisper_stt has no
\* await), so it runs on the thread of the event loop: from its start to its
\* return the loop schedules nothing else, neither another handler nor the
\* POST /sensitivity endpoint.  pc is "stt" for the handler inside the call.
LoopFree == \A t \in Sessions : pc[t] # "stt"

\* receive_bytes() returns a frame that leads to an active window while a model
\* is there: the frame is appended, the window is cut and model.transcribe is
\* entered.
stt_enter(s) ==
    /\ LoopFree
    /\ pc[s] = "recv"
    /\ \E c \in Chunks :
         LET chunk == [s |-> s, i |-> rx[s], n |-> c.n, a |-> c.a]
             mid == AppendChunk(audio_buffer, chunk)
             \* a model is there, loaded at startup or by this call
             m == load_whisper_model(whisper_model, TRUE)
         IN  /\ WindowReady(mid)
             /\ VoiceActive(chunk_to_analyze(mid))
             /\ audio_buffer' = AfterExtract(mid)
             /\ whisper_model' = m
             /\ rx' = [rx EXCEPT ![s] = @ + c.n]
             /\ step' = <<[s |-> s, pre |-> audio_buffer, chunk |-> chunk, mid |-> mid,
                           ready |-> TRUE, win |-> chunk_to_analyze(mid),
                           post |-> AfterExtract(mid), an |-> <<>>]>>
             /\ wins' = <<[pair |-> Latest2(IF wins = <<>> THEN <<>> ELSE wins[1].pair,
                                            chunk_to_analyze(mid)),
                           clean |-> ~(disturbed
                                        \/ TotalLen(audio_buffer) + c.n > TotalLen(mid))]>>
             /\ swins' = [swins EXCEPT ![s] = Latest2(@, chunk_to_analyze(mid))]
    /\ pc' = [pc EXCEPT ![s] = "stt"]
    /\ nmsgs' = nmsgs + 1
    /\ nbin' = [nbin EXCEPT ![s] = @ + 1]
    /\ nwin' = [nwin EXCEPT ![s] = @ + 1]
    /\ nstt' = [nstt EXCEPT ![s] = @ + 1]
    /\ disturbed' = FALSE
    /\ UNCHANGED <<sensitivity_level, detections, patterns, response, outbox, http,
                   ident, text_in, svcvars, dbvars>>

\* model.transcribe returns or raises; the rest of the pass follows at once.
stt_return(s) ==
    /\ pc[s] = "stt"
    /\ \E out \in STTOutcomes, dbOk \in BOOLEAN :
         \E an \in {AnalyzeWindow(step[1].win, patterns[s], whisper_model, TRUE, out,
                                  dbOk)} :
           /\ step' = <<[step[1] EXCEPT !.an = <<an>>]>>
           /\ detections' = IF an.insert = "ok" THEN detections \o an.row ELSE detections
           /\ response' = [response EXCEPT ![s] = an.response]
           /\ pc' = [pc EXCEPT ![s] = IF an.insert = "raised"
                                       THEN "sqlite3.Error" ELSE "send"]
    /\ UNCHANGED <<sensitivity_level, audio_buffer, whisper_model, patterns, outbox, http,
                   ident, rx, nmsgs, nbin, nwin, nstt, wins, swins, disturbed, text_in,
                   svcvars, dbvars>>

\* A pass over a binary frame that does not reach model.transcribe.
receive_without_transcribe(s) ==
    /\ LoopFree
    /\ websocket_receive_bytes(s)
    /\ (step'[1].ready /\ step'[1].an[1].called) => step'[1].an[1].model = NoModel

\* The steps of a handler that the event loop has to schedule.
loop_start(s) == LoopFree /\ websocket_start(s)
loop_send(s) == LoopFree /\ websocket_send(s)

NextLoop ==
    \/ \E s \in Sessions : LoopFree /\ websocket_connect(s)
    \/ \E s \in Sessions : loop_start(s)
    \/ nmsgs < MaxMsgs /\ \E s \in Sessions : stt_enter(s)
    \/ \E s \in Sessions : stt_return(s)
    \/ nmsgs < MaxMsgs /\ \E s \in Sessions : receive_without_transcribe(s)
    \/ nmsgs < MaxMsgs /\ \E s \in Sessions : LoopFree /\ websocket_receive_malformed(s)
    \/ nmsgs < MaxMsgs /\ \E s \in Sessions : LoopFree /\ websocket_receive_text(s)
    \/ nmsgs < MaxMsgs /\ \E s \in Sessions : LoopFree /\ websocket_disconnect(s)
    \/ \E s \in Sessions : loop_send(s)
    \/ nmsgs < MaxMsgs /\ \E level \in SensitivityRequests :
           LoopFree /\ set_sensitivity(level)

SpecLoop == Init /\ [][NextLoop]_vars

\* ------------------------------------------ the catalog and the sensitivity
\* The ProfanityService instance next to the /sensitivity endpoint and the
\* start of a handler, which reads the level.  The methods of the service are
\* plain synchronous methods of a shared object with no lock: callers on
\* different threads interleave between statements, so a set_sensitivity call
\* can be overtaken between its two assignments.
handlervars == <<sensitivity_level, audio_buffer, whisper_model, detections, pc, patterns,
                 response, outbox, http, ident, rx, nbin, step, nwin, nstt, wins, swins,
                 disturbed, text_in>>

\* The texts handed to the matcher: empty, blanks only, what Whisper may hand
\* back, and a tier-1 phrase that holds a tier-2 and a tier-3 phrase.
\* Further: a clean sentence, two tier-2 phrases in the reverse of their catalog
\* order, a tier-3 phrase followed by Latin letters of both cases.
DetectTexts ==
    {<<>>, <<32, 9>>, <<44060, 49352, 45180>>,
     <<50724, 45720, 32, 45216, 50472, 32, 51339, 45796>>,
     <<48148, 48372, 32, 49352, 45180>>,
     <<48120, 52828, 32, 65, 98>>} \cup RawTexts
PatternRequests == 0..4

\* svc_ret keeps the latest return in front of the one before it.
Earlier(ret) == IF ret = <<>> THEN <<>> ELSE <<ret[1]>>

\* ProfanityService.set_sensitivity up to its first assignment, or to its
\* return of False.
service_set_sensitivity(level) ==
    /\ svc_pc = <<>>
    /\ IF LevelAccepted(level)
       THEN /\ service' = [service EXCEPT !.sensitivity_level = level]
            /\ svc_pc' = <<level>>
            /\ UNCHANGED svc_ret
       ELSE /\ svc_ret' = <<[call |-> "set_sensitivity", arg |-> level, n |-> nmsgs + 1,
                             value |-> FALSE]>> \o Earlier(svc_ret)
            /\ UNCHANGED <<service, svc_pc>>
    /\ nmsgs' = nmsgs + 1
    /\ UNCHANGED <<handlervars, dbvars, dbvars>>

\* self.patterns = self.get_patterns(level); return True
service_set_patterns ==
    /\ svc_pc # <<>>
    /\ service' = [service EXCEPT !.patterns = get_patterns(svc_pc[1])]
    /\ svc_pc' = <<>>
    /\ svc_ret' = <<[call |-> "set_sensitivity", arg |-> svc_pc[1], n |-> nmsgs,
                     value |-> TRUE]>> \o Earlier(svc_ret)
    /\ UNCHANGED <<handlervars, dbvars, nmsgs>>

\* Variant: the call keeps the phrases it found as the active list.
service_detect_NarrowsPatterns(text) ==
    /\ svc_ret' = <<[call |-> "detect", arg |-> text, n |-> nmsgs + 1,
                     value |-> detect(service, text),
                     level |-> service.sensitivity_level,
                     patterns |-> service.patterns]>> \o Earlier(svc_ret)
    /\ service' = [service EXCEPT !.patterns = MatchedPatterns(@, Lower(text))]
    /\ nmsgs' = nmsgs + 1
    /\ UNCHANGED <<handlervars, dbvars, svc_pc>>

\* A call of ProfanityService.detect; level and patterns are the fields of the
\* instance as the call finds them.
service_detect(text) ==
    /\ svc_ret' = <<[call |-> "detect", arg |-> text, n |-> nmsgs + 1,
                     value |-> detect(service, text),
                     level |-> service.sensitivity_level,
                     patterns |-> service.patterns]>> \o Earlier(svc_ret)
    /\ nmsgs' = nmsgs + 1
    /\ UNCHANGED <<handlervars, dbvars, service, svc_pc>>

\* A call of ProfanityService.get_patterns
service_get_patterns(sensitivity) ==
    /\ svc_ret' = <<[call |-> "get_patterns", arg |-> sensitivity, n |-> nmsgs + 1,
                     value |-> get_patterns(sensitivity)]>> \o Earlier(svc_ret)
    /\ nmsgs' = nmsgs + 1
    /\ UNCHANGED <<handlervars, dbvars, service, svc_pc>>

NextSvc ==
    \/ \E s \in Sessions : websocket_connect(s)
    \/ \E s \in Sessions : websocket_start(s)
    \/ nmsgs < MaxMsgs /\ \E level \in SensitivityRequests : set_sensitivity(level)
    \/ nmsgs < MaxMsgs /\ \E level \in SensitivityRequests : service_set_sensitivity(level)
    \/ service_set_patterns
    \/ nmsgs < MaxMsgs /\ \E text \in DetectTexts : service_detect(text)
    \/ nmsgs < MaxMsgs /\ \E n \in PatternRequests : service_get_patterns(n)

SpecSvc == Init /\ [][NextSvc]_vars

\* ------------------------------------------------- clients with short frames
\* The same handlers, every client sending frames of at most half a window.
\* The samples are quiet, so no pass reaches the transcription.
MaxFrames == 4
SmallChunks == { [n |-> 5000, a |-> 0], [n |-> 7000, a |-> 16], [n |-> 12000, a |-> 0] }

NextSmall ==
    \/ \E s \in Sessions : websocket_connect(s)
    \/ \E s \in Sessions : websocket_start(s)
    \/ nmsgs < MaxFrames /\ \E s \in Sessions : \E c \in SmallChunks : receive_chunk(s, c)
    \/ nmsgs < MaxFrames /\ \E s \in Sessions : websocket_disconnect(s)
    \/ \E s \in Sessions : websocket_send(s)

SpecSmall == Init /\ [][NextSmall]_vars

\* ------------------------------------------------------------- the groups
\* main.py and models/group.py.  Every endpoint is an async def that makes
\* its sqlite3 calls synchronously and never awaits, and uvicorn runs one event
\* loop, so a request runs from its first statement to its answer without
\* another request in between.  A request that ends without commit leaves the
\* tables as they were (conn.close() discards the open transaction).
MaxSwears == 2
\* max_members INTEGER DEFAULT 5
DefaultMaxMembers == 5
\* The codes generate_invite_code may draw, and one that no group has.  With
\* one code to draw there is one group, which is where the capacity matters.
InviteCodes == {"K7Q2ZD"}
NoSuchCode == "000000"
\* Who sends which request: anyone joins; two users and a stranger create;
\* two users and a stranger are heard swearing; a user and a stranger ask for
\* the ranking.
Creators == {0, 1, 2}
Speakers == {0, 1, 3}
Viewers == {0, 1}

\* verify_user(user_id)
verify_user(u) == u \in Users

\* SELECT id, name, max_members FROM groups WHERE invite_code = ?
GroupsByCode(table, invite_code) ==
    {k \in 1..Len(table) : table[k].invite_code = invite_code}
\* SELECT COUNT(*) FROM group_members WHERE group_id = ?
MemberCount(members, group_id) == Cardinality({r \in members : r.group_id = group_id})

\* Group.create_group: a code no group has, a row in groups, the owner's row
\* in group_members, commit.  dbOk: no statement raises.
Group_create_group(table, members, invite_code, owner_id, dbOk) ==
    LET group_id == Len(table) + 1
    IN  IF dbOk /\ [group_id |-> group_id, user_id |-> owner_id] \notin members
        THEN [success |-> TRUE, group_id |-> group_id, invite_code |-> invite_code,
              groups |-> Append(table, [id |-> group_id, invite_code |-> invite_code,
                                        owner_id |-> owner_id,
                                        max_members |-> DefaultMaxMembers]),
              group_members |-> members \cup {[group_id |-> group_id, user_id |-> owner_id]}]
        ELSE [success |-> FALSE, message |-> "create failed",
              groups |-> table, group_members |-> members]

\* Variant: a group is full only when it holds more than max_members.
Group_join_group_AllowsOneMore(table, members, invite_code, user_id, dbOk) ==
    IF ~dbOk
    THEN [success |-> FALSE, message |-> "join failed", group_members |-> members]
    ELSE IF GroupsByCode(table, invite_code) = {}
    THEN [success |-> FALSE, message |-> "no such invite code", group_members |-> members]
    ELSE LET group == table[CHOOSE k \in GroupsByCode(table, invite_code) : TRUE]
         IN  IF [group_id |-> group.id, user_id |-> user_id] \in members
             THEN [success |-> FALSE, message |-> "already a member",
                   group_members |-> members]
             ELSE IF MemberCount(members, group.id) > group.max_members
             THEN [success |-> FALSE, message |-> "group is full",
                   group_members |-> members]
             ELSE [success |-> TRUE, group_id |-> group.id,
                   group_members |->
                       members \cup {[group_id |-> group.id, user_id |-> user_id]}]

\* Group.join_group: the group of the code, the membership test, the count
\* against max_members, the INSERT, commit.  dbOk: no statement raises.
Group_join_group(table, members, invite_code, user_id, dbOk) ==
    IF ~dbOk
    THEN [success |-> FALSE, message |-> "join failed", group_members |-> members]
    ELSE IF GroupsByCode(table, invite_code) = {}
    THEN [success |-> FALSE, message |-> "no such invite code", group_members |-> members]
    ELSE LET group == table[CHOOSE k \in GroupsByCode(table, invite_code) : TRUE]
         IN  IF [group_id |-> group.id, user_id |-> user_id] \in members
             THEN [success |-> FALSE, message |-> "already a member",
                   group_members |-> members]
             ELSE IF MemberCount(members, group.id) >= group.max_members
             THEN [success |-> FALSE, message |-> "group is full",
                   group_members |-> members]
             ELSE [success |-> TRUE, group_id |-> group.id,
                   group_members |->
                       members \cup {[group_id |-> group.id, user_id |-> user_id]}]

\* The orders in which the rows for the users S may come back under ORDER BY
\* swear_count DESC: a user with the largest count first, the order of equal
\* counts being open.
RECURSIVE Descending(_, _)
Descending(S, counts) ==
    IF S = {} THEN {<<>>}
    ELSE UNION { {<<u>> \o rest : rest \in Descending(S \ {u}, counts)} :
                 u \in {v \in S : \A w \in S : counts[v] >= counts[w]} }
\* Group.get_group_ranking with the period "all": the members of the group
\* with the number of their detections, the larger numbers first.
Group_get_group_ranking(members, counts, group_id) ==
    LET S == {r.user_id : r \in {m \in members : m.group_id = group_id}}
    IN  { [k \in 1..Len(f) |->
              [rank |-> k, user_id |-> f[k], swear_count |-> counts[f[k]]]] :
          f \in Descending(S, counts) }

\* ranking[:3]
best_users(ranking) == SubSeq(ranking, 1, Min(3, Len(ranking)))
\* ranking[-3:] if len(ranking) > 3 else []
worst_users(ranking) ==
    IF Len(ranking) > 3 THEN SubSeq(ranking, Len(ranking) - 2, Len(ranking)) ELSE <<>>

\* POST /groups/create
create_group(u) ==
    /\ IF ~verify_user(u)
       THEN /\ api' = <<[call |-> "create_group", user |-> u, status |-> 401]>>
            /\ UNCHANGED <<groups, group_members>>
       ELSE \E invite_code \in {c \in InviteCodes : GroupsByCode(groups, c) = {}} :
            \E dbOk \in BOOLEAN :
            \E r \in {Group_create_group(groups, group_members, invite_code, u, dbOk)} :
               /\ groups' = r.groups
               /\ group_members' = r.group_members
               /\ api' = <<[call |-> "create_group", user |-> u,
                             status |-> IF r.success THEN 200 ELSE 400,
                             result |-> [success |-> r.success]]>>
    /\ UNCHANGED <<handlervars, nmsgs, svcvars, swears>>

\* POST /groups/join
join_group(u, invite_code) ==
    /\ IF ~verify_user(u)
       THEN /\ api' = <<[call |-> "join_group", user |-> u, code |-> invite_code,
                          status |-> 401]>>
            /\ UNCHANGED group_members
       ELSE \E dbOk \in BOOLEAN :
            \E r \in {Group_join_group(groups, group_members, invite_code, u, dbOk)} :
               /\ group_members' = r.group_members
               /\ api' = <<[call |-> "join_group", user |-> u, code |-> invite_code,
                             status |-> IF r.success THEN 200 ELSE 400,
                             result |-> IF r.success
                                        THEN [success |-> TRUE, group_id |-> r.group_id]
                                        ELSE [success |-> FALSE, message |-> r.message]]>>
    /\ UNCHANGED <<handlervars, nmsgs, svcvars, groups, swears>>

\* POST to save_profanity: a row in detections with the user's id
save_profanity(u) ==
    /\ IF ~verify_user(u)
       THEN /\ api' = <<[call |-> "save_profanity", user |-> u, status |-> 401]>>
            /\ UNCHANGED swears
       ELSE /\ swears' = [swears EXCEPT ![u] = @ + 1]
            /\ api' = <<[call |-> "save_profanity", user |-> u, status |-> 200]>>
    /\ UNCHANGED <<handlervars, nmsgs, svcvars, groups, group_members>>

\* GET /groups/{group_id}/ranking with period=all
get_group_ranking(u, group_id) ==
    /\ IF ~verify_user(u)
       THEN api' = <<[call |-> "get_group_ranking", group_id |-> group_id,
                      status |-> 401]>>
       ELSE \E ranking \in Group_get_group_ranking(group_members, swears, group_id) :
               api' = <<[call |-> "get_group_ranking",
                         group_id |-> group_id, status |-> 200,
                         total_members |-> Len(ranking),
                         best_performers |-> best_users(ranking),
                         worst_performers |-> worst_users(ranking),
                         full_ranking |-> ranking]>>
    /\ UNCHANGED <<handlervars, nmsgs, svcvars, groups, group_members, swears>>

\* The detections recorded so far, over all users.
RECURSIVE SwearsUpTo(_)
SwearsUpTo(u) == IF u = 0 THEN 0 ELSE swears[u] + SwearsUpTo(u - 1)

NextGroup ==
    \/ \E u \in Creators : create_group(u)
    \/ \E u \in Requesters : \E code \in InviteCodes \cup {NoSuchCode} : join_group(u, code)
    \/ SwearsUpTo(6) < MaxSwears /\ \E u \in Speakers : save_profanity(u)
    \/ \E u \in Viewers : \E group_id \in {1, 2} : get_group_ranking(u, group_id)

SpecGroup == Init /\ [][NextGroup]_vars

\* ================================================================ claims
\* The run of a chunk as the handler appends it (nothing for an empty chunk).
ChunkRuns(chunk) == IF chunk.n = 0 THEN <<>> ELSE <<chunk>>
\* The last k samples of a run-length sequence.
LastSamples(b, k) == DropSamples(b, TotalLen(b) - k)
\* No connection other than s has ever been opened.
Solo(s) == \A t \in Sessions \ {s} : pc[t] = "idle"

\* C1: after every append step (extend, then the cap) the accumulator is the
\* last min(len, 48000) samples of (previous accumulator ++ chunk); so it never
\* holds more than 48000 samples, and holds exactly 48000 once the cap is
\* exceeded, the oldest samples being the ones dropped.
C1_AppendKeepsNewest ==
    /\ TotalLen(audio_buffer) <= 48000
    /\ \A k \in 1..Len(step) :
         LET st == step[k]
             all == st.pre \o ChunkRuns(st.chunk)
         IN  /\ st.mid = LastSamples(all, Min(TotalLen(all), 48000))
             /\ TotalLen(st.mid) <= 48000
             /\ TotalLen(all) > 48000 => TotalLen(st.mid) = 48000

\* An append onto a non-empty accumulator went past the cap.
C1_Witness ==
    /\ step # <<>>
    /\ step[1].pre # <<>>
    /\ TotalLen(step[1].pre) + step[1].chunk.n > 48000
    /\ step[1].mid[1].s = step[1].s

\* C2: a window is extracted if and only if the accumulator holds at least
\* 24000 samples; the window is then the first 24000 samples and exactly 12000
\* samples leave the head; otherwise nothing is extracted and the accumulator
\* is untouched.  24000 samples appended to an empty accumulator give one
\* window and leave 12000.
C2_WindowExtraction ==
    \A k \in 1..Len(step) :
        LET st == step[k]
        IN  /\ st.ready <=> TotalLen(st.mid) >= 24000
            /\ st.ready =>
                 /\ TotalLen(st.win) = 24000
                 /\ st.win = TakeSamples(st.mid, 24000)
                 /\ st.post = DropSamples(st.mid, 12000)
                 /\ TotalLen(st.post) = TotalLen(st.mid) - 12000
            /\ ~st.ready => st.win = <<>> /\ st.post = st.mid
            /\ (st.pre = <<>> /\ st.chunk.n = 24000) =>
                 st.ready /\ TotalLen(st.post) = 12000

\* 24000 samples were appended to an empty accumulator and a window came out.
C2_Witness ==
    /\ step # <<>>
    /\ step[1].pre = <<>>
    /\ step[1].chunk.n = 24000
    /\ step[1].ready
    /\ audio_buffer = step[1].post

\* C3 as claimed: two windows extracted one after the other by the same
\* connection share half their samples: the last 12000 samples of the earlier
\* are the first 12000 of the later, whatever was appended in between.  Stated
\* for a connection that is alone on the server.
C3_ConsecutiveOverlap ==
    \A s \in Sessions :
        (Solo(s) /\ Len(swins[s]) = 2) =>
            LastSamples(swins[s][1], 12000) = TakeSamples(swins[s][2], 12000)

\* C3 as amended: right after every extraction the accumulator begins with the
\* last 12000 samples of the window just extracted; and two windows extracted
\* one after the other from the accumulator share those 12000 samples provided
\* that between the two extractions no append went past the cap and the
\* accumulator was not re-initialised.
C3_OverlapUnlessCut ==
    /\ \A k \in 1..Len(step) :
         step[k].ready =>
            TakeSamples(step[k].post, 12000) = LastSamples(step[k].win, 12000)
    /\ \A k \in 1..Len(wins) :
         (Len(wins[k].pair) = 2 /\ wins[k].clean) =>
            LastSamples(wins[k].pair[1], 12000) = TakeSamples(wins[k].pair[2], 12000)

\* Two windows came out one after the other with nothing cut in between, the
\* later one reaching past the samples they share.
C3_Witness ==
    /\ wins # <<>>
    /\ Len(wins[1].pair) = 2
    /\ wins[1].clean
    /\ wins[1].pair[1] # wins[1].pair[2]
    /\ Len(wins[1].pair[2]) = 2

\* C4 as claimed: whenever a handler has finished a binary frame and waits for
\* the next inbound message, fewer than 24000 samples are left in the
\* accumulator.  Stated for a connection that is alone on the server.
C4_DrainedWhenWaiting ==
    \A s \in Sessions :
        (Solo(s) /\ pc[s] = "recv" /\ nbin[s] > 0) => TotalLen(audio_buffer) < 24000

RECURSIVE AbsSum(_)
\* The sum of |int16 value| over a window; its energy is AbsSum / (32768 * 24000).
AbsSum(w) ==
    IF w = <<>> THEN 0
    ELSE Head(w).n * (IF Head(w).a < 0 THEN -Head(w).a ELSE Head(w).a) + AbsSum(Tail(w))
\* energy <= 0.02, that is AbsSum / (32768 * 24000) <= 1/50
Quiet(w) == 50 * AbsSum(w) <= 32768 * 24000

\* C6: for a window whose energy does not exceed 0.02 no STT call is issued and
\* the message for it is the no-activity one, carrying that energy; an all-zero
\* window has energy 0 and is such a window; an STT call is issued only for
\* windows with energy above 0.02.
C6_GateBeforeSTT ==
    \A k \in 1..Len(step) :
        step[k].ready =>
            LET win == step[k].win
                an == step[k].an[1]
            IN  /\ Quiet(win) =>
                     /\ ~an.called
                     /\ an.response = <<[detected |-> FALSE, text |-> <<>>,
                                         energy |-> AbsSum(win),
                                         message |-> "no_activity"]>>
                /\ an.called => ~Quiet(win)
                /\ (\A j \in 1..Len(win) : win[j].a = 0) =>
                     AbsSum(win) = 0 /\ ~an.called

\* Scenario C: a window of 24000 samples of value 16 (about 0.0005) was gated:
\* no STT call, the no-activity message is on its way.
C6_Witness ==
    \E s \in Sessions :
        /\ step # <<>> /\ step[1].s = s /\ step[1].ready
        /\ AbsSum(step[1].win) = 24000 * 16
        /\ nstt[s] = 0
        /\ pc[s] = "send"
        /\ response[s][1].message = "no_activity"

\* C7 as claimed: every window a handler has extracted has its one result
\* message, sent or about to be sent, and there is no message without a window.
C7_OneResultPerWindow ==
    \A s \in Sessions : nwin[s] = Len(outbox[s]) + Len(response[s])

\* C8 as claimed: every window a connection analyzes holds only samples that
\* this connection received.
C8_SessionIsolation ==
    \A s \in Sessions :
        \A k \in 1..Len(swins[s]) :
            \A j \in 1..Len(swins[s][k]) : swins[s][k][j].s = s

\* C9 as claimed: a connection that presented no identity never streams.
C9_UnauthenticatedNeverStreams ==
    \A s \in Sessions : ident[s] = "absent" => pc[s] \notin Streaming

\* C10: when the STT call for an active window fails (transcribe raises, or no
\* model is loaded), the text is empty, nothing is matched or inserted, the
\* message for the window is the empty-result one and the handler goes on to
\* send it, still streaming.
C10_STTFailureRecovered ==
    [][\A s \in Sessions :
         (/\ nbin'[s] = nbin[s] + 1
          /\ step'[1].ready
          /\ step'[1].an[1].called
          /\ step'[1].an[1].failed) =>
            /\ step'[1].an[1].text = <<>>
            /\ ~step'[1].an[1].scanned
            /\ detections' = detections
            /\ response'[s] = <<[detected |-> FALSE, text |-> <<>>,
                                 energy |-> AbsSum(step'[1].win),
                                 message |-> "stt_empty"]>>
            /\ pc'[s] = "send"]_vars

\* transcribe raised on an active window; the empty-result message has been
\* sent and the handler waits for the next frame.
C10_Witness ==
    \E s \in Sessions :
        /\ step # <<>> /\ step[1].s = s /\ step[1].ready
        /\ step[1].an[1].called /\ step[1].an[1].failed
        /\ whisper_model = "base"
        /\ pc[s] = "recv"
        /\ Len(outbox[s]) = 1
        /\ outbox[s][1].message = "stt_empty"

\* C11 as claimed: when the INSERT of a detection raises, the detected-result
\* message of that window is still emitted (sent, or about to be) and the
\* handler keeps streaming.
C11_InsertFailureNonFatal ==
    \A k \in 1..Len(step) :
        (step[k].ready /\ step[k].an[1].insert = "raised") =>
            LET s == step[k].s
                msgs == outbox[s] \o response[s]
            IN  /\ pc[s] \in Streaming
                /\ msgs # <<>>
                /\ msgs[Len(msgs)].detected
                /\ msgs[Len(msgs)].text = step[k].an[1].text

\* C12 as claimed, in the case it names: a handler that the decoding error of a
\* frame with an odd number of bytes has ended has sent the client an error
\* message as its last message.
C12_ErrorReportedBeforeClose ==
    \A s \in Sessions :
        pc[s] = "ValueError" =>
            /\ outbox[s] # <<>>
            /\ "error" \in DOMAIN outbox[s][Len(outbox[s])]

\* The liveness probe and the messages the claims expect in answer to text frames.
Ping == <<112, 105, 110, 103>>
LivenessAck == [type |-> "pong"]
Unsupported == [type |-> "unsupported"]

\* C13 as claimed: a handler that is handed the liveness probe answers with the
\* acknowledgment, keeps streaming and leaves the audio buffer as it was.
C13_ProbeAcknowledged ==
    [][\A s \in Sessions :
         (text_in'[s] # text_in[s] /\ text_in'[s] = <<Ping>>) =>
            /\ pc'[s] \in Streaming
            /\ response'[s] = <<LivenessAck>>
            /\ audio_buffer' = audio_buffer]_vars

\* C14 as claimed: a handler that is handed any other text answers with the
\* "unsupported" message and keeps streaming, so that later binary frames are
\* still taken.
C14_UnsupportedNonFatal ==
    [][\A s \in Sessions :
         (text_in'[s] # text_in[s] /\ text_in'[s] # <<Ping>>) =>
            /\ pc'[s] \in Streaming
            /\ response'[s] = <<Unsupported>>]_vars

\* C15: a handler takes its next inbound message (a binary frame, a text
\* frame, a malformed frame, a disconnect) only from the receive point, with no
\* result pending and the results of all the windows it has extracted already
\* sent; a window's result is the only thing pending after its extraction; and
\* the k-th message a client is sent is the result of the k-th window its
\* handler extracted, appended after the earlier ones.
C15_SequentialPipeline ==
    [][\A s \in Sessions :
         /\ (nbin'[s] # nbin[s] \/ text_in'[s] # text_in[s]
               \/ (pc'[s] # pc[s] /\ pc'[s] \in {"closed"} \cup Failed)) =>
              /\ pc[s] = "recv"
              /\ response[s] = <<>>
              /\ Len(outbox[s]) = nwin[s]
         /\ nwin'[s] # nwin[s] =>
              /\ nwin'[s] = nwin[s] + 1
              /\ nbin'[s] = nbin[s] + 1
              /\ pc'[s] = "send" => Len(response'[s]) = 1
         /\ outbox'[s] # outbox[s] =>
              /\ pc[s] = "send"
              /\ Len(response[s]) = 1
              /\ outbox'[s] = Append(outbox[s], response[s][1])
              /\ Len(outbox'[s]) = nwin[s]]_vars

\* A client has been sent the results of two windows, distinct ones, and its
\* handler is back at the receive point.
C15_Witness ==
    \E s \in Sessions :
        /\ nwin[s] = 2
        /\ Len(outbox[s]) = 2
        /\ outbox[s][1] # outbox[s][2]
        /\ pc[s] = "recv"

\* C16 as claimed: while one handler is inside its transcription call, every
\* other handler that has something to do can do it: one that was accepted can
\* start, one with a result pending can send it.
C16_OthersProgressDuringSTT ==
    \A s \in Sessions, t \in Sessions :
        (s # t /\ pc[s] = "stt") =>
            /\ pc[t] = "accepting" => ENABLED loop_start(t)
            /\ pc[t] = "send" => ENABLED loop_send(t)

\* The tier lists put one after the other, up to tier n.
TierConcat(n) ==
    PROFANITY_PATTERNS[1]
        \o (IF n >= 2 THEN PROFANITY_PATTERNS[2] ELSE <<>>)
        \o (IF n >= 3 THEN PROFANITY_PATTERNS[3] ELSE <<>>)
IsPrefix(p, q) == Len(p) <= Len(q) /\ SubSeq(q, 1, Len(p)) = p

\* C17: for N in {1,2,3} the pattern list for N is the tier-1, ..., tier-N
\* lists in that order; the list for N-1 is a prefix of the list for N; the
\* list for tier 1 is the tier-1 list, which is not empty.  Checked on the
\* calls of get_patterns, on the list a completed set_sensitivity leaves in the
\* service, and on the list a handler takes when it starts.
C17_TierConcatenation ==
    /\ \A k \in 1..Len(svc_ret) :
         (svc_ret[k].call = "get_patterns" /\ svc_ret[k].arg \in {1, 2, 3}) =>
            /\ svc_ret[k].value = TierConcat(svc_ret[k].arg)
            /\ svc_ret[k].arg > 1 =>
                 /\ IsPrefix(get_patterns(svc_ret[k].arg - 1), svc_ret[k].value)
                 /\ Len(get_patterns(svc_ret[k].arg - 1)) < Len(svc_ret[k].value)
            /\ svc_ret[k].arg = 1 =>
                 svc_ret[k].value = PROFANITY_PATTERNS[1] /\ svc_ret[k].value # <<>>
    /\ svc_pc = <<>> => service.patterns = TierConcat(service.sensitivity_level)
    /\ \A s \in Sessions :
         pc[s] = "recv" => \E n \in {1, 2, 3} : patterns[s] = TierConcat(n)

\* get_patterns(3) has returned the thirty phrases of the three tiers.
C17_Witness ==
    /\ svc_ret # <<>>
    /\ svc_ret[1].call = "get_patterns"
    /\ svc_ret[1].arg = 3
    /\ Len(svc_ret[1].value) = 30

\* A step that serves a POST /sensitivity.
Posted == nmsgs' # nmsgs /\ pc' = pc /\ UNCHANGED svcvars

\* C18: a set with a level outside {1,2,3} fails and leaves the level and the
\* pattern set as they were, in the service and at the endpoint; the level is
\* in {1,2,3} in every state.
C18_InvalidLevelRejected ==
    [][/\ (svc_ret' # svc_ret /\ svc_ret'[1].call = "set_sensitivity"
             /\ svc_ret'[1].arg \notin {1, 2, 3}) =>
            /\ svc_ret'[1].value = FALSE
            /\ service' = service
       /\ (Posted /\ http'[1].request \notin {1, 2, 3}) =>
            /\ "error" \in DOMAIN http'[1].answer
            /\ sensitivity_level' = sensitivity_level
            /\ patterns' = patterns
       /\ service.sensitivity_level \in {1, 2, 3}
       /\ service'.sensitivity_level \in {1, 2, 3}
       /\ sensitivity_level \in {1, 2, 3}
       /\ sensitivity_level' \in {1, 2, 3}]_vars

\* The service was set to 3 and then refused 4, staying at 3 with the
\* thirty phrases.
C18_Witness ==
    /\ svc_ret # <<>>
    /\ svc_ret[1].call = "set_sensitivity"
    /\ svc_ret[1].arg = 4
    /\ svc_ret[1].value = FALSE
    /\ service.sensitivity_level = 3
    /\ Len(service.patterns) = 30

\* C19 as claimed: whenever a detect call runs, the level and the pattern set
\* it finds in the service belong together, the pattern set being the one of
\* that level.
C19_TierUpdateAtomic ==
    \A k \in 1..Len(svc_ret) :
        svc_ret[k].call = "detect" =>
            svc_ret[k].patterns = TierConcat(svc_ret[k].level)

\* C20 as claimed: detect on an empty or blank text returns detected = False,
\* no first match, an empty list of all matches and confidence 0.
C20_BlankTextResult ==
    \A k \in 1..Len(svc_ret) :
        (svc_ret[k].call = "detect" /\ Strip(svc_ret[k].arg) = <<>>) =>
            /\ svc_ret[k].value.detected = FALSE
            /\ svc_ret[k].value.pattern = None
            /\ svc_ret[k].value.confidence = 0
            /\ "patterns" \in DOMAIN svc_ret[k].value
            /\ svc_ret[k].value.patterns = <<>>

\* Case-insensitive occurrence, stated on the folded characters of both sides.
Fold(c) == IF c \in 97..122 THEN c - 32 ELSE c
OccursIn(p, text) ==
    \E k \in 0..(Len(text) - Len(p)) : \A j \in 1..Len(p) : Fold(text[k + j]) = Fold(p[j])
\* The phrases of a list that occur in a text, in the order of the list.
Occurring(ps, text) == SelectSeq(ps, LAMBDA p : OccursIn(p, text))

\* C21: for a non-blank text, the list of all matches that detect returns is
\* the active pattern list restricted to the phrases that occur in the text
\* without regard to case, in the order of the list; detected tells whether
\* that list is non-empty, the first match is its first element (None if
\* empty), the confidence is 0.8 if it is non-empty and 0 otherwise.
C21_MatchesInCatalogOrder ==
    \A k \in 1..Len(svc_ret) :
        (svc_ret[k].call = "detect" /\ Strip(svc_ret[k].arg) # <<>>) =>
            LET v == svc_ret[k].value
                all == Occurring(svc_ret[k].patterns, svc_ret[k].arg)
            IN  /\ v.patterns = all
                /\ v.detected = (all # <<>>)
                /\ v.pattern = (IF all # <<>> THEN all[1] ELSE None)
                /\ v.confidence = (IF all # <<>> THEN 8 ELSE 0)

\* The text held the tier-2 phrases of catalog places 20 and 9, in that order;
\* the result lists them in catalog order.
C21_Witness ==
    /\ svc_ret # <<>>
    /\ svc_ret[1].call = "detect"
    /\ svc_ret[1].arg = <<48148, 48372, 32, 49352, 45180>>
    /\ svc_ret[1].value.patterns = << <<49352, 45180>>, <<48148, 48372>> >>
    /\ svc_ret[1].value.pattern = <<49352, 45180>>
    /\ svc_ret[1].value.confidence = 8

\* The phrases of the tiers above n.
RECURSIVE TiersAbove(_)
TiersAbove(n) == IF n >= 3 THEN <<>> ELSE PROFANITY_PATTERNS[n + 1] \o TiersAbove(n + 1)
InList(p, ps) == \E j \in 1..Len(ps) : ps[j] = p

\* C22: when the active pattern list is the one of tier N, no phrase that
\* belongs only to a tier above N is among the matches; a text that holds no
\* phrase of tiers 1..N is not detected (no matches, confidence 0) whatever
\* higher-tier phrases it holds; at tier 1 the clean sentence of Scenario B is
\* not detected; at tier 2 the tier-2 phrase of Scenario A, alone in the text or
\* followed by a syllable, is detected as the only match with confidence 0.8.
C22_HigherTiersInactive ==
    \A k \in 1..Len(svc_ret), N \in {1, 2, 3} :
        (/\ svc_ret[k].call = "detect"
         /\ Strip(svc_ret[k].arg) # <<>>
         /\ svc_ret[k].patterns = TierConcat(N)) =>
            LET v == svc_ret[k].value
                text == svc_ret[k].arg
            IN  /\ \A j \in 1..Len(v.patterns) :
                     InList(v.patterns[j], TierConcat(N))
                       \/ ~InList(v.patterns[j], TiersAbove(N))
                /\ (\A j \in 1..Len(TierConcat(N)) : ~OccursIn(TierConcat(N)[j], text)) =>
                     /\ v.detected = FALSE
                     /\ v.patterns = <<>>
                     /\ v.confidence = 0
                /\ (N = 1 /\ text = <<50724, 45720, 32, 45216, 50472, 32, 51339, 45796>>) =>
                     v.detected = FALSE /\ v.patterns = <<>> /\ v.confidence = 0
                /\ (N = 2 /\ text = <<51676, 51613, 45208>>) =>
                     /\ v.detected = TRUE
                     /\ v.patterns = << <<51676, 51613>> >>
                     /\ v.confidence = 8

\* At tier 2 a text whose only catalog phrase is of tier 3 was scanned and
\* nothing was detected.
C22_Witness ==
    /\ svc_ret # <<>>
    /\ svc_ret[1].call = "detect"
    /\ svc_ret[1].arg = <<48120, 52828, 32, 65, 98>>
    /\ svc_ret[1].patterns = TierConcat(2)
    /\ svc_ret[1].level = 2
    /\ svc_ret[1].value.detected = FALSE
    /\ svc_ret[1].value.patterns = <<>>

\* C23: a detect call leaves the level and the pattern list of the service as
\* they are (and the level and the snapshots of the handlers likewise), and a
\* call that follows a call with the same text, with the same pattern list
\* active, returns the same result.
C23_DetectIdempotent ==
    [][(svc_ret' # svc_ret /\ svc_ret'[1].call = "detect") =>
          /\ service' = service
          /\ sensitivity_level' = sensitivity_level
          /\ patterns' = patterns
          /\ (/\ svc_ret # <<>>
              /\ svc_ret[1].call = "detect"
              /\ svc_ret[1].arg = svc_ret'[1].arg
              /\ svc_ret[1].patterns = svc_ret'[1].patterns) =>
                svc_ret'[1].value = svc_ret[1].value]_vars

\* Two calls in a row with the same text, which holds phrases of the catalog.
C23_Witness ==
    /\ Len(svc_ret) = 2
    /\ svc_ret[1].call = "detect" /\ svc_ret[2].call = "detect"
    /\ svc_ret[1].arg = svc_ret[2].arg
    /\ svc_ret[1].n = svc_ret[2].n + 1
    /\ svc_ret[1].value.detected
    /\ svc_ret[1].value = svc_ret[2].value

\* C24 as claimed: once a connection is closed by a disconnect, it processes no
\* further message and emits no further result, and the accumulator retains no
\* sample that this connection buffered.
C24_DisconnectReleasesBuffer ==
    /\ [](\A s \in Sessions :
            pc[s] = "closed" => \A j \in 1..Len(audio_buffer) : audio_buffer[j].s # s)
    /\ [][\A s \in Sessions :
            pc[s] = "closed" =>
                /\ pc'[s] = "closed"
                /\ nbin'[s] = nbin[s]
                /\ nwin'[s] = nwin[s]
                /\ outbox'[s] = outbox[s]
                /\ response'[s] = response[s]]_vars

\* The pass that a step has just made extracted a window, and the text
\* recognized in it holds a phrase of the connection's pattern set.
DetectedWindow ==
    /\ nbin' # nbin
    /\ step'[1].ready
    /\ Occurring(patterns[step'[1].s], step'[1].an[1].text) # <<>>
\* The detected messages among msgs.
DetectedMessages(msgs) == {k \in 1..Len(msgs) : msgs[k].detected}
\* The messages emitted to s, the pending one included.
Emitted(s) == outbox[s] \o response[s]

C28_PatternSnapshot ==
    [][/\ \A s \in Sessions :
            /\ (pc[s] = "accepting" /\ pc'[s] = "recv") =>
                  patterns'[s] = TierConcat(sensitivity_level)
            /\ pc[s] \notin {"idle", "accepting"} => patterns'[s] = patterns[s]
       /\ (nbin' # nbin /\ step'[1].ready /\ step'[1].an[1].text # <<>>
             /\ pc'[step'[1].s] = "send") =>
            LET s == step'[1].s
                all == Occurring(patterns[s], step'[1].an[1].text)
            IN  /\ response'[s][1].detected = (all # <<>>)
                /\ all # <<>> => response'[s][1].patterns = all]_vars

\* s started at tier 2; the level was then set to 1 (it never returns to 2), t
\* started after that and emptied the accumulator, and s, in the one frame
\* received since, had a window in which the tier-2 phrase of Scenario A was
\* detected.
C28_Witness ==
    \E s \in Sessions : \E t \in Sessions \ {s} :
        /\ sensitivity_level = 1
        /\ patterns[s] = TierConcat(2)
        /\ patterns[t] = TierConcat(1)
        /\ pc[t] = "recv" /\ nbin[t] = 0
        /\ pc[s] = "send" /\ nbin[s] = 1
        /\ audio_buffer # <<>>
        /\ response[s] # <<>>
        /\ response[s][1].detected
        /\ response[s][1].patterns = << <<51676, 51613>> >>

\* C29: a connection has extracted at most as many windows as it has received
\* binary messages, and has at most as many result messages as windows; the
\* accumulator holds between 0 and 48000 - 12000 = 36000 samples whenever a
\* handler waits, and after a pass that extracted a window it holds the
\* appended length less 12000, which may be 24000 or more.
C29_OneExtractionPerMessage ==
    /\ \A s \in Sessions :
         /\ nwin[s] <= nbin[s]
         /\ Len(outbox[s]) + Len(response[s]) <= nwin[s]
    /\ TotalLen(audio_buffer) \in 0..(max_buffer_length - buffer_size \div 2)
    /\ \A k \in 1..Len(step) :
         /\ TotalLen(step[k].post) \in 0..36000
         /\ step[k].ready =>
              TotalLen(step[k].post)
                = Min(TotalLen(step[k].pre) + step[k].chunk.n, 48000) - 12000
         /\ ~step[k].ready =>
              /\ TotalLen(step[k].post) = TotalLen(step[k].pre) + step[k].chunk.n
              /\ TotalLen(step[k].post) < 24000

\* One message of 52000 samples: one window, and 36000 samples left, enough for
\* a further window that no pass extracts until the next message arrives.
C29_Witness ==
    \E s \in Sessions :
        /\ nbin[s] = 1 /\ nwin[s] = 1
        /\ step # <<>> /\ step[1].s = s /\ step[1].chunk.n = 52000
        /\ audio_buffer = step[1].post
        /\ TotalLen(audio_buffer) = 36000

\* The offset in the stream of s that the samples of s in window w reach (0 if
\* w holds none).
RECURSIVE ReachedIn(_, _)
ReachedIn(w, s) ==
    IF w = <<>> THEN 0
    ELSE Max(IF Head(w).s = s THEN Head(w).i + Head(w).n ELSE 0, ReachedIn(Tail(w), s))
\* The offset in the stream of s at which window w takes up the stream (the
\* length of the stream if w holds no sample of s).
RECURSIVE BeginsIn(_, _)
BeginsIn(w, s) ==
    IF w = <<>> THEN rx[s]
    ELSE Min(IF Head(w).s = s THEN Head(w).i ELSE rx[s], BeginsIn(Tail(w), s))
\* The offset that the windows s has extracted reach in its stream.
Analyzed(s) ==
    IF swins[s] = <<>> THEN 0
    ELSE Max(ReachedIn(swins[s][1], s), ReachedIn(swins[s][Len(swins[s])], s))

\* C30 as claimed, every chunk of every client holding at most 12000 samples:
\* no append discards a sample at the cap; the accumulator holds fewer than
\* 24000 samples whenever a handler waits for its next message; and no received
\* sample is skipped: the first window a connection extracts begins at the start
\* of its stream, each later one begins no later than where the one before
\* ended, and what its windows have not reached yet is still in the accumulator.
C30_SmallChunksNothingSkipped ==
    /\ \A k \in 1..Len(step) :
         TotalLen(step[k].mid) = TotalLen(step[k].pre) + step[k].chunk.n
    /\ \A s \in Sessions :
         /\ pc[s] = "recv" => TotalLen(audio_buffer) < 24000
         /\ (nwin[s] = 1 /\ rx[s] > 0) => BeginsIn(swins[s][1], s) = 0
         /\ Len(swins[s]) = 2 =>
              BeginsIn(swins[s][2], s) <= ReachedIn(swins[s][1], s)
         /\ pc[s] \in Streaming =>
              \/ Analyzed(s) = rx[s]
              \/ \E j \in 1..Len(audio_buffer) :
                   audio_buffer[j].s = s /\ audio_buffer[j].i <= Analyzed(s)

\* The same for a connection that is alone on the server.
C30_AloneNothingSkipped ==
    /\ \A k \in 1..Len(step) :
         Solo(step[k].s) =>
            TotalLen(step[k].mid) = TotalLen(step[k].pre) + step[k].chunk.n
    /\ \A s \in Sessions :
         Solo(s) =>
            /\ pc[s] = "recv" => TotalLen(audio_buffer) < 24000
            /\ (nwin[s] = 1 /\ rx[s] > 0) => BeginsIn(swins[s][1], s) = 0
            /\ Len(swins[s]) = 2 =>
                 BeginsIn(swins[s][2], s) <= ReachedIn(swins[s][1], s)
            /\ pc[s] \in Streaming =>
                 \/ Analyzed(s) = rx[s]
                 \/ \E j \in 1..Len(audio_buffer) :
                      audio_buffer[j].s = s /\ audio_buffer[j].i <= Analyzed(s)

\* The users that table group_members lists for a group.
MembersOf(group_id) == {r.user_id : r \in {m \in group_members : m.group_id = group_id}}
\* The step is a join request that has been answered.
Joined == api' # <<>> /\ api'[1].call = "join_group" /\ api'[1].status # 401

Named(rows) == {rows[k].user_id : k \in 1..Len(rows)}

\* C26 as claimed: in every answer of the ranking endpoint best_performers
\* holds three members (all of them if the group has fewer) and no member left
\* out of it has fewer detections than one in it; and, for a group of more than
\* three, worst_performers holds three members and no member left out of it has
\* more detections than one in it.
C26_BestAreFewest ==
    (api # <<>> /\ api[1].call = "get_group_ranking" /\ api[1].status = 200) =>
        LET members == MembersOf(api[1].group_id)
            best == Named(api[1].best_performers)
            worst == Named(api[1].worst_performers)
        IN  /\ best \subseteq members
            /\ Cardinality(best) = Min(3, Cardinality(members))
            /\ \A u \in best, v \in members \ best : swears[u] <= swears[v]
            /\ Cardinality(members) > 3 =>
                 /\ worst \subseteq members
                 /\ Cardinality(worst) = 3
                 /\ \A u \in worst, v \in members \ worst : swears[u] >= swears[v]

====
